---- MODULE Spec2Model ----
(***************************************************************************)
(* Model of the AppVision trigger node (AppvisionTrigger.node.ts): the     *)
(* session lifecycle (waitForServer, connectToServer,                      *)
(* enableNotifications), the notification polling loop                     *)
(* (monitorNotifications) and the shutdown action (cleanup).               *)
(*                                                                         *)
(* The trigger is one asynchronous task (the start IIFE) plus the host's   *)
(* closeFunction.  JavaScript runs each of them to its next `await`        *)
(* without interruption, so every action below is the code between two     *)
(* awaits: pc names the await the poller task is suspended at, cpc the     *)
(* await cleanup is suspended at.  The peer is opaque: every request the   *)
(* code awaits may succeed with any body of a small set or fail.           *)
(*                                                                         *)
(* The MCP server (McpAppvision/build/index.js, sessionManager, utils) is  *)
(* a second process, specified by McpSpec: the handlers of login-session,  *)
(* logout-session and two operation wrappers, with mpc the await the       *)
(* running handler is suspended at.  The two processes share only the      *)
(* file session/sessionId.json.  KeepAliveSpec adds the timers of          *)
(* keepAlive, ReadsSpec takes the reads of the file one at a time.         *)
(***************************************************************************)
EXTENDS Integers, Sequences, FiniteSets, TLC

VARIABLES
    pc,            \* the await the start IIFE is suspended at
    cpc,           \* the await of cleanup: "idle" (not called), "closing", "done", "failed"
    sessionId,     \* let sessionId (a sequence of characters, or Undef)
    isActive,      \* let isActive
    isFirstTime,   \* let isFirstTime
    isConnecting,  \* let isConnecting
    outputArray,   \* let outputArray: the output channels
    response,      \* the response the poller task received last (const response)
    sessionFile,   \* the content of session/sessionId.json, or NoFile
    emitted,       \* history: the argument of the last this.emit call
    emitCount,     \* history: the number of this.emit calls so far, modulo EmitWrap
    noticeSent,    \* history: cleanup has emitted its disconnect notice
    connPending,   \* history: a Login succeeded and no fan-out has carried its message yet
    reconnect,     \* history: how far the poller got since its last "Deconnection detected"
    mpc,           \* MCP server: the await the running tool handler is suspended at, or "idle"
    tool,          \* MCP server: the tool called last
    toolResult,    \* MCP server: the result the handler returned, NoResult while it runs
    mSession,      \* MCP server: the handler's sessionId and ip
    result,        \* MCP server: what the gateway returned last to the handler
    sessionFileMcp, \* the content of session/sessionIdMcp.json, or NoFile
    keepAliveInterval, \* MCP server: let keepAliveInterval (the armed timer, or NoTimer)
    unhandled,     \* history: a promise nobody awaits has rejected in the MCP server
    sent,          \* history: the request the MCP server sent last
    loaded,        \* history: what the last pre-check read, NoLoad once the file was rewritten
    stopKeepAliveTimeout, \* MCP server: let stopKeepAliveTimeout (TRUE: a pending timer)
    leaked,        \* MCP server: the timers still armed whose handle was overwritten
    spc,           \* MCP server: stopKeepAlive, idle or awaiting the Logout it sent
    probe,         \* history: the last KeepAlive a timer callback sent and what became of it
    outcome        \* history: what became of the last request whose response the MCP server read

\* the variables of the MCP server process
\* the timers of the sessionManager module other than keepAliveInterval
timerVars == <<stopKeepAliveTimeout, leaked, spc, probe>>

mvars == <<mpc, tool, toolResult, mSession, result, sessionFileMcp, keepAliveInterval,
           unhandled, sent, loaded, timerVars, outcome>>

vars == <<pc, cpc, sessionId, isActive, isFirstTime, isConnecting, outputArray,
          response, sessionFile, emitted, emitCount, noticeSent, connPending, reconnect,
          mvars>>

(***************************************************************************)
(* Bounds                                                                  *)
(***************************************************************************)
\* the most timers of each kind that keepAlive calls leave behind armed
MaxLeaked == 1

\* the longest batch the peer answers GetNotifications with
MaxBatch == 2

\* the history counter of this.emit calls wraps at this value
EmitWrap == 2

(***************************************************************************)
(* JavaScript values                                                       *)
(***************************************************************************)
\* undefined / null where a string is expected (strings are character sequences)
Undef == <<"undefined">>

\* an absent property of a parsed XML element
Absent == "<absent>"

\* JavaScript truthiness of a string-or-undefined held as a character sequence
Truthy(s) == s # Undef /\ s # <<>>

\* JavaScript truthiness of a property of a parsed element (a TLA+ string)
TruthyProp(v) == v # Absent /\ v # ""

\* the elements of a sequence
Range(s) == { s[i] : i \in DOMAIN s }

\* a || b on element properties
OrProp(a, b) == IF TruthyProp(a) THEN a ELSE b

\* credentials.ip
ip == "10.0.0.5"

(***************************************************************************)
(* Open: the response body and response.replace(/<[^>]+>/g, '')            *)
(***************************************************************************)
\* the position of the first ">" of s at or after position i, 0 when there is none
RECURSIVE FirstGt(_, _)
FirstGt(s, i) ==
    IF i > Len(s) THEN 0
    ELSE IF s[i] = ">" THEN i
    ELSE FirstGt(s, i + 1)

\* response.replace(/<[^>]+>/g, ''): every "<", one or more characters other than
\* ">", then ">" is removed, scanning from the left
RECURSIVE StripTags(_)
StripTags(s) ==
    IF s = <<>> THEN <<>>
    ELSE LET k == FirstGt(s, 2)
         IN  IF Head(s) = "<" /\ k >= 3
             THEN StripTags(SubSeq(s, k + 1, Len(s)))
             ELSE <<Head(s)>> \o StripTags(Tail(s))

\* the bodies the peer answers Open with: a session id in a <string> element,
\* and the empty body
OpenBodies ==
    { <<"<", "s", ">", "a", "<", "/", "s", ">">>,
      <<"<", "s", ">", "b", "<", "/", "s", ">">>,
      <<>> }

(***************************************************************************)
(* Notifications as XMLParser.parse returns them                           *)
(***************************************************************************)
\* one Notification element: hasData says whether it has a Data child; itype is
\* Data["@_i:type"], type is Data.type, Alarm and Description are Data's children
Notif(d, it, t, a, de) ==
    [hasData |-> d, itype |-> it, type |-> t, Alarm |-> a, Description |-> de]

\* the types the filter of monitorNotifications keeps
KnownTypes ==
    {"EventRow", "VariableState", "AlarmInfo", "GroupState", "AreaState",
     "ProtocolState", "ServerState"}

\* the Notification elements the peer sends
Notifs ==
    { Notif(TRUE, t, Absent, Absent, Absent) :
        t \in KnownTypes \ {"AlarmInfo", "VariableState"} }
    \cup
    { Notif(TRUE, "AlarmInfo", Absent, "A1", "High temp"),
      Notif(TRUE, "AlarmInfo", Absent, Absent, ""),
      Notif(TRUE, "", "VariableState", Absent, Absent),
      Notif(TRUE, "Foo", "AlarmInfo", Absent, Absent),
      Notif(FALSE, Absent, Absent, Absent, Absent) }

\* the Notification elements the peer sends together in longer batches: two
\* AlarmInfo, a ServerState and one of an unknown type
BatchNotifs ==
    { Notif(TRUE, "AlarmInfo", Absent, "A1", "High temp"),
      Notif(TRUE, "AlarmInfo", Absent, Absent, ""),
      Notif(TRUE, "ServerState", Absent, Absent, Absent),
      Notif(TRUE, "Foo", "AlarmInfo", Absent, Absent) }

\* the sequences over S of length at most n
SeqUpTo(S, n) == UNION { [1..k -> S] : k \in 0..n }

\* the bodies the peer answers GetNotifications with: nothing, white space, text
\* the parser rejects, a document without ArrayOfNotification, and an
\* ArrayOfNotification holding one Notification element of any kind or up to
\* MaxBatch elements of BatchNotifs
GetBodies ==
    { [kind |-> k, items |-> <<>>] : k \in {"empty", "blank", "malformed", "other"} }
    \cup
    { [kind |-> "array", items |-> <<n>>] : n \in Notifs }
    \cup
    { [kind |-> "array", items |-> b] : b \in SeqUpTo(BatchNotifs, MaxBatch) }

\* response && response.trim() !== ''
HasText(body) == body.kind \notin {"empty", "blank"}

\* parser.parse(response) throws
ParseThrows(body) == body.kind = "malformed"

\* parsedData?.ArrayOfNotification?.Notification: undefined, one object, or an array
ParsedNotification(body) ==
    IF body.kind # "array" \/ Len(body.items) = 0 THEN [shape |-> "none", items |-> <<>>]
    ELSE IF Len(body.items) = 1 THEN [shape |-> "one", items |-> body.items]
    ELSE [shape |-> "many", items |-> body.items]

\* Array.isArray(notifications) ? notifications : (notifications ? [notifications] : [])
NotificationArray(p) ==
    IF p.shape = "many" THEN p.items
    ELSE IF p.shape = "one" THEN <<p.items[1]>>
    ELSE <<>>

\* notification.Data, when the element has one
DataOf(n) ==
    [itype |-> n.itype, type |-> n.type, Alarm |-> n.Alarm, Description |-> n.Description]

\* notification.Data?.[f]
DataProp(n, f) == IF n.hasData THEN n[f] ELSE Absent

\* notification.Data?.["@_i:type"] || notification.Data?.type || "Unknown"
TypeOf(n) == OrProp(OrProp(DataProp(n, "itype"), DataProp(n, "type")), "Unknown")

\* a filter that keeps every notification
FilteredNotifications_KeepAll(arr) == arr

\* notificationArray.filter(... [known types].includes(type))
FilteredNotifications(arr) == SelectSeq(arr, LAMBDA n : TypeOf(n) \in KnownTypes)

\* formattedNotification of the forEach body
FormattedNotification(n) ==
    IF TypeOf(n) = "AlarmInfo"
    THEN [notification |->
            [type |-> TypeOf(n),
             Alarm |-> OrProp(DataProp(n, "Alarm"), "N/A"),
             Description |-> OrProp(DataProp(n, "Description"), "N/A")]]
    ELSE [notification |->
            [type |-> TypeOf(n), data |-> IF n.hasData THEN DataOf(n) ELSE "N/A"]]

\* an outputIndex that sends ServerState to channel 6
OutputIndex_ServerStateOn6(n) ==
    CASE TypeOf(n) = "EventRow" -> 0
      [] TypeOf(n) = "VariableState" -> 1
      [] TypeOf(n) = "AlarmInfo" -> 2
      [] TypeOf(n) = "GroupState" -> 3
      [] TypeOf(n) = "AreaState" -> 4
      [] TypeOf(n) = "ProtocolState" -> 5
      [] TypeOf(n) = "ServerState" -> 6
      [] OTHER -> -1

\* outputIndex of the forEach body (-1: not pushed)
OutputIndex(n) ==
    CASE TypeOf(n) = "EventRow" -> 0
      [] TypeOf(n) = "VariableState" -> 1
      [] TypeOf(n) = "AlarmInfo" -> 2
      [] TypeOf(n) = "GroupState" -> 3
      [] TypeOf(n) = "AreaState" -> 4
      [] TypeOf(n) = "ProtocolState" -> 5
      [] TypeOf(n) = "ServerState" -> 7
      [] OTHER -> -1

(***************************************************************************)
(* Output channels.  Channel i of the code is element i + 1 here.          *)
(***************************************************************************)
\* [[], [], [], [], [], [], []], the initial value of outputArray
Empty7 == [i \in 1..7 |-> <<>>]

\* [[], [], [], [], [], [], [], []]
Empty8 == [i \in 1..8 |-> <<>>]

\* the message connectToServer stores
ConnMsg == [message |-> "Connection successful"]

\* the message of the catch block of monitorNotifications
DiscMsg == [message |-> "Deconnection detected"]

\* the message of cleanup
ShutdownMsg(sid) ==
    [message |-> "Deconnection detected, caused by desacitvation", sessionId |-> sid]

\* outputArray[i].push(x)
Push(arr, i, x) == [arr EXCEPT ![i + 1] = Append(@, x)]

\* for (i < outputArray.length) if (i !== 6) outputArray[i] = []
ClearExcept6(arr) == [i \in DOMAIN arr |-> IF i - 1 # 6 THEN <<>> ELSE arr[i]]

\* filteredNotifications.forEach(...): push every notification whose outputIndex is not -1
RECURSIVE Dispatch(_, _)
Dispatch(arr, ns) ==
    IF ns = <<>> THEN arr
    ELSE Dispatch(IF OutputIndex(Head(ns)) # -1
                  THEN Push(arr, OutputIndex(Head(ns)), FormattedNotification(Head(ns)))
                  ELSE arr,
                  Tail(ns))

\* this.helpers.returnJsonArray(output): every item wrapped as {json: item}
ReturnJsonArray(output) == [j \in DOMAIN output |-> [json |-> output[j]]]

\* outputArray.map(output => output.length > 0 ? returnJsonArray(output) : [])
FanOut(arr) ==
    [i \in DOMAIN arr |-> IF Len(arr[i]) > 0 THEN ReturnJsonArray(arr[i]) ELSE <<>>]

(***************************************************************************)
(* The session file written by connectToServer                             *)
(***************************************************************************)
\* session/sessionId.json does not exist
NoFile == [exists |-> FALSE, content |-> <<>>]

\* JSON.stringify([{ sessionId, ip }]): a property whose value is undefined is left out
SessionRecord(sid, addr) ==
    [exists |-> TRUE,
     content |-> IF sid = Undef THEN <<[ip |-> addr]>>
                 ELSE <<[sessionId |-> sid, ip |-> addr]>>]

\* the session ids the file names
FileSessionIds(f) ==
    { f.content[i].sessionId :
        i \in { j \in DOMAIN f.content : "sessionId" \in DOMAIN f.content[j] } }

(***************************************************************************)
(* Responses awaited by the poller task                                    *)
(***************************************************************************)
\* no response is held (outside the scope of const response)
NoResponse == [req |-> "none", ok |-> TRUE, body |-> <<>>]

\* a request that resolved with a body
Resolved(req, body) == [req |-> req, ok |-> TRUE, body |-> body]

\* a request that rejected (peer unreachable, non-2xx status)
Rejected(req) == [req |-> req, ok |-> FALSE, body |-> <<>>]

(***************************************************************************)
(* The MCP server (McpAppvision/build/index.js with its sessionManager and *)
(* utils): values                                                          *)
(***************************************************************************)
\* null where a string is expected
Null == <<"null">>

\* null where an address is expected (getIp found none)
NullIp == "<null>"

\* `if (!v)` on a string, null or undefined
Falsy(v) == v \in {Undef, Null, <<>>}

\* the marker of an exception leaving a try block
Thrown == <<"throw">>
ThrownIp == "<throw>"

\* a zero-length session/sessionId.json (a write in progress has truncated it)
EmptyFile == [exists |-> TRUE, content |-> <<>>, text |-> "empty"]

\* a session/sessionId.json holding text that is not JSON (a write cut short)
MalformedFile == [exists |-> TRUE, content |-> <<>>, text |-> "malformed"]

\* JSON.stringify({ sessionId: id }, null, 2): an object, not an array
McpRecord(id) == [exists |-> TRUE, content |-> <<>>, object |-> [sessionId |-> id]]

\* the session ids the peer hands out
SessionIds == { StripTags(b) : b \in OpenBodies \ {<<>>} }

\* the states of session/sessionId.json the MCP server can find: no file, a
\* file being written, and what connectToServer of the trigger writes (with
\* the session id, or without it when waitForServer returned undefined)
FileStates ==
    {NoFile, EmptyFile, MalformedFile, SessionRecord(Undef, ip)}
    \cup { SessionRecord(s, ip) : s \in SessionIds }

\* JSON.parse(data) throws
JsonParseThrows(f) == "text" \in DOMAIN f

\* parsed.sessionId of the top-level value: only an object can have one
TopSessionId(f) == IF "object" \in DOMAIN f THEN f.object.sessionId ELSE Undef

\* the try block of getSession: existsSync, readFileSync, JSON.parse,
\* parsed.length > 0 && parsed[0].sessionId
GetSessionTry(f) ==
    IF ~f.exists THEN Null
    ELSE IF JsonParseThrows(f) THEN Thrown
    ELSE IF Len(f.content) > 0 /\ "sessionId" \in DOMAIN f.content[1]
            /\ ~Falsy(f.content[1].sessionId)
         THEN f.content[1].sessionId
         ELSE Null

\* a getSession whose exceptions leave it
GetSession_NoCatch(f) == GetSessionTry(f)

\* getSession: the try block, with catch (err) { ... } return null
GetSession(f) == IF GetSessionTry(f) = Thrown THEN Null ELSE GetSessionTry(f)

\* the try block of getIp: Array.isArray(parsed) && parsed.length > 0 && parsed[0].ip
GetIpTry(f) ==
    IF ~f.exists THEN NullIp
    ELSE IF JsonParseThrows(f) THEN ThrownIp
    ELSE IF "object" \notin DOMAIN f /\ Len(f.content) > 0
            /\ "ip" \in DOMAIN f.content[1] /\ TruthyProp(f.content[1].ip)
         THEN f.content[1].ip
         ELSE NullIp

\* getIp: the try block, with catch (err) { ... } return null
GetIp(f) == IF GetIpTry(f) = ThrownIp THEN NullIp ELSE GetIpTry(f)

\* what a pre-check reads: getSession() and getIp()
Load(f) == [sessionId |-> GetSession(f), ip |-> GetIp(f)]

\* no pre-check has read the file since it was last written
NoLoad == [sessionId |-> Undef, ip |-> "<unread>"]

\* a keepAlive that arms whatever the file holds
KeepAliveOutcome_ArmsAlways(f) == "arms"

\* keepAlive up to its setInterval: it returns without arming when the file is
\* missing or its top-level value has no sessionId, its promise rejects when
\* JSON.parse (outside every try block) throws, and it arms otherwise
KeepAliveOutcome(f) ==
    IF ~f.exists THEN "returns"
    ELSE IF JsonParseThrows(f) THEN "rejects"
    ELSE IF Falsy(TopSessionId(f)) THEN "returns"
    ELSE "arms"

\* keepAliveInterval === null
NoTimer == [armed |-> FALSE]

\* the timer keepAlive arms: its callback sends KeepAlive to ip with sessionId
Timer(f) == [armed |-> TRUE, sessionId |-> TopSessionId(f), ip |-> GetIp(f)]

\* a request as sent: its name, the address of its URL and its SessionID header
Request(req, to, sid) == [req |-> req, to |-> to, sid |-> sid]

\* nothing was sent yet
NoRequest == Request("none", NullIp, Null)

\* what becomes of a request: the peer answers 2xx with a body (possibly empty),
\* answers another status, or is not reached; only the address ip reaches it
Outcomes(to, bodies) ==
    IF to = ip
    THEN { [kind |-> "ok", body |-> b] : b \in bodies \cup {<<>>} }
         \cup { [kind |-> "status", body |-> <<>>], [kind |-> "unreachable", body |-> <<>>] }
    ELSE { [kind |-> "unreachable", body |-> <<>>] }

\* stopKeepAlive is not running
StopIdle == [at |-> "idle"]

\* no timer callback has sent KeepAlive yet
NoProbe == [sent |-> FALSE]

\* no request has settled yet
NoOutcome == [kind |-> "none", body |-> <<>>]

\* the try block of AppVisionRequest: fetch throws, a status that is not 2xx
\* throws, an empty text gives null, any other text is returned
AppVisionRequestTry(o) ==
    IF o.kind \in {"unreachable", "status"} THEN Thrown
    ELSE IF o.body = <<>> THEN Null
    ELSE o.body

\* an AppVisionRequest whose exceptions leave it
AppVisionRequest_NoCatch(o) == AppVisionRequestTry(o)

\* AppVisionRequest: the try block, with catch (error) { ... return null }
AppVisionRequest(o) ==
    IF AppVisionRequestTry(o) = Thrown THEN Null ELSE AppVisionRequestTry(o)

\* the body of a successful operation
OkBody == <<"o", "k">>

\* the sentinels of a Login response
S401 == <<"4", "0", "1">>
S402 == <<"4", "0", "2">>
S406 == <<"4", "0", "6">>
S500 == <<"5", "0", "0">>

\* the bodies the peer answers Login with
LoginBodies ==
    { OkBody, S401, S402 \o S401, S402, S500 \o S406 \o S402, S406, S500 \o S406,
      S500, <<"4", "0", "0", "1">> }

\* the bodies the peer answers the Open of login-session with
McpOpenBodies == OpenBodies \cup { <<"<", "s", ">", " ", "<", "/", "s", ">">> }

\* s.includes(sub)
Includes(s, sub) ==
    \E i \in 1..(Len(s) - Len(sub) + 1) : SubSeq(s, i, i + Len(sub) - 1) = sub

\* s.trim(), for the blank the peer's bodies hold
RECURSIVE TrimStart(_)
TrimStart(s) == IF s # <<>> /\ Head(s) = " " THEN TrimStart(Tail(s)) ELSE s

RECURSIVE TrimEnd(_)
TrimEnd(s) ==
    IF s # <<>> /\ s[Len(s)] = " " THEN TrimEnd(SubSeq(s, 1, Len(s) - 1)) ELSE s

Trim(s) == TrimEnd(TrimStart(s))

\* a tool result: { content: [{ type: "text", text: text + arg }] }
Text(text, arg) == [text |-> text, arg |-> arg]

\* the handler has not returned
NoResult == Text("<pending>", <<>>)

\* the result of every operation wrapper that finds no session
NoSessionResult == Text("No active session. Please log in first.", <<>>)

\* a classification that looks for "402" first
LoginResult_402First(r) ==
    IF ~Falsy(r) /\ Includes(r, S402)
    THEN Text("Too many clients or users connected. Please try again later.", <<>>)
    ELSE IF ~Falsy(r) /\ Includes(r, S401)
    THEN Text("Unauthorized: Incorrect username or password.", <<>>)
    ELSE IF ~Falsy(r) /\ Includes(r, S406)
    THEN Text("New user detected. Please change the password.", <<>>)
    ELSE IF ~Falsy(r) /\ Includes(r, S500)
    THEN Text("Internal server error. Please contact support.", <<>>)
    ELSE Text("Session created successfully: ", r)

\* what login-session returns for the value r its Login request gave:
\* if (result) { 401, else 402, else 406, else 500 } and else the success text
LoginResult(r) ==
    IF ~Falsy(r) /\ Includes(r, S401)
    THEN Text("Unauthorized: Incorrect username or password.", <<>>)
    ELSE IF ~Falsy(r) /\ Includes(r, S402)
    THEN Text("Too many clients or users connected. Please try again later.", <<>>)
    ELSE IF ~Falsy(r) /\ Includes(r, S406)
    THEN Text("New user detected. Please change the password.", <<>>)
    ELSE IF ~Falsy(r) /\ Includes(r, S500)
    THEN Text("Internal server error. Please contact support.", <<>>)
    ELSE Text("Session created successfully: ", r)

\* the operation wrappers modelled: one that checks what the gateway returned,
\* one that does not, and logout-session
Wrappers == {"get-current-alarms", "set-variable", "logout-session"}

\* the endpoint a wrapper calls first
EndpointOf(t) ==
    CASE t = "get-current-alarms" -> "GetCurrentAlarms"
      [] t = "set-variable" -> "SetVariable"
      [] t = "logout-session" -> "Logout"

\* what a wrapper returns for the value r its last request gave
WrapperResult(t, r) ==
    CASE t = "get-current-alarms" ->
           IF Falsy(r) THEN Text("Failed to retrieve current alarms.", <<>>)
           ELSE Text("", r)
      [] t = "set-variable" -> Text("request sended.", <<>>)
      [] t = "logout-session" -> Text("logout successfully.", <<>>)

\* the MCP server has started and no tool was called
McpStart ==
    /\ mpc = "idle"
    /\ tool = "none"
    /\ toolResult = NoResult
    /\ mSession = [sessionId |-> Null, ip |-> NullIp]
    /\ result = Undef
    /\ sessionFileMcp = NoFile
    /\ keepAliveInterval = NoTimer
    /\ unhandled = FALSE
    /\ sent = NoRequest
    /\ loaded = NoLoad
    /\ stopKeepAliveTimeout = FALSE
    /\ leaked = [intervals |-> <<>>, timeouts |-> 0]
    /\ spc = StopIdle
    /\ probe = NoProbe
    /\ outcome = NoOutcome

(***************************************************************************)
(* Initial state: trigger() has returned.  The start IIFE ran              *)
(* connectToServer and waitForServer up to the await of the Open request.  *)
(***************************************************************************)
Init ==
    /\ pc = "wfs_open"
    /\ cpc = "idle"
    /\ sessionId = Undef
    /\ isActive = TRUE
    /\ isFirstTime = TRUE
    /\ isConnecting = TRUE
    /\ outputArray = Empty7
    /\ response = NoResponse
    /\ sessionFile = NoFile
    /\ emitted = <<>>
    /\ emitCount = 0
    /\ noticeSent = FALSE
    /\ connPending = FALSE
    /\ reconnect = "none"
    /\ McpStart

\* this.emit(outputArray.map(...)) with the channels arr
Emit(arr) ==
    /\ emitted' = FanOut(arr)
    /\ emitCount' = (emitCount + 1) % EmitWrap

NoEmit == UNCHANGED <<emitted, emitCount>>

(***************************************************************************)
(* waitForServer                                                           *)
(***************************************************************************)
\* a waitForServer that sends Open without setting the in-progress flag
WaitForServerLoop_NoFlag ==
    IF ~isActive
    THEN /\ sessionId' = Undef
         /\ pc' = "cts_write"
         /\ UNCHANGED isConnecting
    ELSE IF isConnecting
    THEN /\ pc' = "wfs_sleep"
         /\ UNCHANGED <<sessionId, isConnecting>>
    ELSE /\ pc' = "wfs_open"
         /\ UNCHANGED <<sessionId, isConnecting>>

\* while (isActive) { ... } up to its next await: leave the loop (waitForServer
\* returns undefined and connectToServer starts its writeFile), wait 3 s while
\* a probe is in progress, or set the flag and send Open
WaitForServerLoop ==
    IF ~isActive
    THEN /\ sessionId' = Undef
         /\ pc' = "cts_write"
         /\ UNCHANGED isConnecting
    ELSE IF isConnecting
    THEN /\ pc' = "wfs_sleep"
         /\ UNCHANGED <<sessionId, isConnecting>>
    ELSE /\ isConnecting' = TRUE
         /\ pc' = "wfs_open"
         /\ UNCHANGED sessionId

\* a waitForServer that leaves the flag set when the probe failed
OpenOutcome_KeepsFlag(r) ==
    IF r.ok /\ r.body # <<>>
    THEN /\ isConnecting' = FALSE
         /\ sessionId' = StripTags(r.body)
         /\ pc' = "cts_write"
    ELSE /\ pc' = "wfs_sleep"
         /\ UNCHANGED <<sessionId, isConnecting>>

\* what waitForServer does with the settled Open request r: a non-empty body is
\* returned without its tags (and connectToServer starts its writeFile); an
\* empty body or a rejection clears the flag and waits 2 s
OpenOutcome(r) ==
    /\ isConnecting' = FALSE
    /\ IF r.ok /\ r.body # <<>>
       THEN /\ sessionId' = StripTags(r.body)
            /\ pc' = "cts_write"
       ELSE /\ pc' = "wfs_sleep"
            /\ UNCHANGED sessionId

\* the Open request settles with r
OpenSettles(r) ==
    /\ pc = "wfs_open"
    /\ response' = r
    /\ OpenOutcome(r)
    /\ UNCHANGED <<cpc, isActive, isFirstTime, outputArray, sessionFile,
                   emitted, emitCount, noticeSent, connPending>>
    /\ reconnect' = IF r.ok /\ r.body # <<>> /\ reconnect = "down" THEN "opened" ELSE reconnect
    /\ UNCHANGED mvars

\* the peer answers Open with a non-empty body
OpenAnswered == \E b \in OpenBodies \ {<<>>} : OpenSettles(Resolved("Open", b))

\* the peer answers Open with an empty body, or the request rejects
OpenUnanswered == \E r \in {Resolved("Open", <<>>), Rejected("Open")} : OpenSettles(r)

\* the 2 s (or 3 s) wait of waitForServer is over: back to the top of the loop
WaitForServerRetry ==
    /\ pc = "wfs_sleep"
    /\ response' = NoResponse
    /\ WaitForServerLoop
    /\ UNCHANGED <<cpc, isActive, isFirstTime, outputArray,
                   sessionFile, emitted, emitCount, noticeSent, connPending>>
    /\ UNCHANGED reconnect
    /\ UNCHANGED mvars

(***************************************************************************)
(* connectToServer                                                         *)
(***************************************************************************)
\* fs.writeFile settles (written, or failed and logged), then Login is sent
WriteSettles ==
    /\ pc = "cts_write"
    /\ \E written \in BOOLEAN :
         sessionFile' = IF written THEN SessionRecord(sessionId, ip) ELSE sessionFile
    /\ pc' = "cts_login"
    /\ response' = NoResponse
    /\ UNCHANGED <<cpc, sessionId, isActive, isFirstTime, isConnecting, outputArray,
                   emitted, emitCount, noticeSent, connPending>>
    /\ UNCHANGED reconnect
    /\ UNCHANGED mvars

\* a connectToServer that keeps the seven channels the trigger starts with
LoginResolves_SevenSlots ==
    /\ pc = "cts_login"
    /\ response' = Resolved("Login", <<>>)
    /\ outputArray' = Push(Empty7, 6, ConnMsg)
    /\ isFirstTime' = TRUE
    /\ pc' = "en_start"
    /\ connPending' = TRUE
    /\ UNCHANGED <<cpc, sessionId, isActive, isConnecting, sessionFile,
                   emitted, emitCount, noticeSent>>
    /\ reconnect' = IF reconnect = "opened" THEN "logged" ELSE reconnect
    /\ UNCHANGED mvars

\* Login resolves: the channels are reset, "Connection successful" is stored on
\* channel 6, isFirstTime is set, and enableNotifications sends StartNotifications
LoginResolves ==
    /\ pc = "cts_login"
    /\ response' = Resolved("Login", <<>>)
    /\ outputArray' = Push(Empty8, 6, ConnMsg)
    /\ isFirstTime' = TRUE
    /\ pc' = "en_start"
    /\ connPending' = TRUE
    /\ UNCHANGED <<cpc, sessionId, isActive, isConnecting, sessionFile,
                   emitted, emitCount, noticeSent>>
    /\ reconnect' = IF reconnect = "opened" THEN "logged" ELSE reconnect
    /\ UNCHANGED mvars

\* an awaited request outside every try block rejects: the rejection leaves
\* connectToServer or enableNotifications, then monitorNotifications' catch
\* block if it was the caller, then the start IIFE, whose promise nobody awaits
RequestRejects(at, req) ==
    /\ pc = at
    /\ response' = Rejected(req)
    /\ pc' = "rejected"
    /\ UNCHANGED <<cpc, sessionId, isActive, isFirstTime, isConnecting, outputArray,
                   sessionFile, emitted, emitCount, noticeSent, connPending>>
    /\ UNCHANGED reconnect
    /\ UNCHANGED mvars

LoginRejects == RequestRejects("cts_login", "Login")

(***************************************************************************)
(* enableNotifications                                                     *)
(***************************************************************************)
\* StartNotifications resolves and AddFilterNotifications is sent
StartNotificationsResolves ==
    /\ pc = "en_start"
    /\ response' = Resolved("StartNotifications", <<>>)
    /\ pc' = "en_filter"
    /\ UNCHANGED <<cpc, sessionId, isActive, isFirstTime, isConnecting, outputArray,
                   sessionFile, emitted, emitCount, noticeSent, connPending>>
    /\ UNCHANGED reconnect
    /\ UNCHANGED mvars

StartNotificationsRejects == RequestRejects("en_start", "StartNotifications")

\* a monitorNotifications that polls whatever the active flag says
MonitorLoop_IgnoresFlag == pc' = "mon_fetch"

\* while (isActive) of monitorNotifications up to its next await: send
\* GetNotifications, or leave the loop, which ends the start IIFE
MonitorLoop == pc' = IF isActive THEN "mon_fetch" ELSE "done"

\* AddFilterNotifications resolves: the caller goes on to the top of
\* while (isActive) of monitorNotifications
AddFilterResolves ==
    /\ pc = "en_filter"
    /\ response' = NoResponse
    /\ MonitorLoop
    /\ UNCHANGED <<cpc, sessionId, isActive, isFirstTime, isConnecting, outputArray,
                   sessionFile, emitted, emitCount, noticeSent, connPending>>
    /\ UNCHANGED reconnect
    /\ UNCHANGED mvars

AddFilterRejects == RequestRejects("en_filter", "AddFilterNotifications")

(***************************************************************************)
(* monitorNotifications                                                    *)
(***************************************************************************)
\* a try block that keeps channel 6 on every batch
ChannelsAfter_KeepsStatus(arr, first, body) ==
    LET notificationArray == NotificationArray(ParsedNotification(body))
        filtered == FilteredNotifications(notificationArray)
    IN  IF HasText(body) /\ ~ParseThrows(body)
           /\ Len(notificationArray) > 0 /\ Len(filtered) > 0
        THEN Dispatch(ClearExcept6(arr), filtered)
        ELSE arr

\* a try block that pushes every batch onto what the channels already hold
ChannelsAfter_Accumulates(arr, first, body) ==
    LET notificationArray == NotificationArray(ParsedNotification(body))
        filtered == FilteredNotifications(notificationArray)
    IN  IF HasText(body) /\ ~ParseThrows(body)
           /\ Len(notificationArray) > 0 /\ Len(filtered) > 0
        THEN Dispatch(arr, filtered)
        ELSE arr

\* a try block that resets the channels for a batch without a known type
ChannelsAfter_ResetsOnUnknown(arr, first, body) ==
    LET notificationArray == NotificationArray(ParsedNotification(body))
        filtered == FilteredNotifications(notificationArray)
    IN  IF HasText(body) /\ ~ParseThrows(body) /\ Len(notificationArray) > 0
        THEN Dispatch(IF first /\ Len(filtered) > 0 THEN ClearExcept6(arr) ELSE Empty8,
                      filtered)
        ELSE arr

\* the channels after the try block handled the body: unchanged unless the body
\* has text, parses, and holds a notification of a known type
ChannelsAfter(arr, first, body) ==
    LET notificationArray == NotificationArray(ParsedNotification(body))
        filtered == FilteredNotifications(notificationArray)
    IN  IF HasText(body) /\ ~ParseThrows(body)
           /\ Len(notificationArray) > 0 /\ Len(filtered) > 0
        THEN Dispatch(IF first THEN ClearExcept6(arr) ELSE Empty8, filtered)
        ELSE arr

\* whether the try block reaches this.emit for the body
EmitsFor(body) ==
    /\ HasText(body)
    /\ ~ParseThrows(body)
    /\ Len(NotificationArray(ParsedNotification(body))) > 0
    /\ Len(FilteredNotifications(NotificationArray(ParsedNotification(body)))) > 0

\* a monitorNotifications whose parse error reaches the outer catch block
GetNotificationsResolves_Escalates ==
    /\ pc = "mon_fetch"
    /\ \E body \in GetBodies :
         /\ response' = Resolved("GetNotifications", body)
         /\ IF ParseThrows(body)
            THEN /\ outputArray' = Push(Empty8, 6, DiscMsg)
                 /\ Emit(outputArray')
                 /\ WaitForServerLoop
                 /\ UNCHANGED <<isFirstTime, connPending>>
            ELSE /\ outputArray' = ChannelsAfter(outputArray, isFirstTime, body)
                 /\ IF EmitsFor(body)
                    THEN /\ isFirstTime' = FALSE
                         /\ Emit(outputArray')
                         /\ connPending' = (connPending /\ ConnMsg \notin Range(outputArray'[7]))
                    ELSE /\ NoEmit
                         /\ UNCHANGED <<isFirstTime, connPending>>
                 /\ pc' = "mon_sleep"
                 /\ UNCHANGED <<sessionId, isConnecting>>
    /\ UNCHANGED <<cpc, isActive, sessionFile, noticeSent>>
    /\ reconnect' = IF ParseThrows(response'.body) THEN "down" ELSE reconnect
    /\ UNCHANGED mvars

\* GetNotifications resolves with body and the try block runs on it: classify,
\* emit when a known type is present, then wait pollingInterval
GetNotificationsResolves ==
    /\ pc = "mon_fetch"
    /\ \E body \in GetBodies :
         /\ response' = Resolved("GetNotifications", body)
         /\ outputArray' = ChannelsAfter(outputArray, isFirstTime, body)
         /\ IF EmitsFor(body)
            THEN /\ isFirstTime' = FALSE
                 /\ Emit(outputArray')
                 /\ connPending' = (connPending /\ ConnMsg \notin Range(outputArray'[7]))
            ELSE /\ NoEmit
                 /\ UNCHANGED <<isFirstTime, connPending>>
    /\ pc' = "mon_sleep"
    /\ UNCHANGED <<cpc, sessionId, isActive, isConnecting, sessionFile, noticeSent>>
    /\ UNCHANGED reconnect
    /\ UNCHANGED mvars

\* a catch block that sends GetNotifications again instead of reconnecting
GetNotificationsRejects_Refetch ==
    /\ pc = "mon_fetch"
    /\ response' = Rejected("GetNotifications")
    /\ outputArray' = Push(Empty8, 6, DiscMsg)
    /\ Emit(outputArray')
    /\ MonitorLoop
    /\ UNCHANGED <<cpc, sessionId, isActive, isFirstTime, isConnecting, sessionFile,
                   noticeSent, connPending>>
    /\ reconnect' = "down"
    /\ UNCHANGED mvars

\* a catch block that reconnects without emitting
GetNotificationsRejects_Silent ==
    /\ pc = "mon_fetch"
    /\ response' = Rejected("GetNotifications")
    /\ outputArray' = Push(Empty8, 6, DiscMsg)
    /\ NoEmit
    /\ WaitForServerLoop
    /\ UNCHANGED <<cpc, isActive, isFirstTime, sessionFile, noticeSent, connPending>>
    /\ reconnect' = "down"
    /\ UNCHANGED mvars

\* GetNotifications rejects: the catch block resets the channels, stores
\* "Deconnection detected" on channel 6, emits, and calls connectToServer,
\* which enters waitForServer
GetNotificationsRejects ==
    /\ pc = "mon_fetch"
    /\ response' = Rejected("GetNotifications")
    /\ outputArray' = Push(Empty8, 6, DiscMsg)
    /\ Emit(outputArray')
    /\ WaitForServerLoop
    /\ UNCHANGED <<cpc, isActive, isFirstTime, sessionFile, noticeSent, connPending>>
    /\ reconnect' = "down"
    /\ UNCHANGED mvars

\* the pollingInterval wait is over: back to the top of while (isActive)
PollingIntervalOver ==
    /\ pc = "mon_sleep"
    /\ response' = NoResponse
    /\ MonitorLoop
    /\ UNCHANGED <<cpc, sessionId, isActive, isFirstTime, isConnecting, outputArray,
                   sessionFile, emitted, emitCount, noticeSent, connPending>>
    /\ UNCHANGED reconnect
    /\ UNCHANGED mvars

(***************************************************************************)
(* cleanup (closeFunction)                                                 *)
(***************************************************************************)
\* the host calls cleanup: with a session id Close is sent, without one the
\* active flag is cleared at once
CleanupCalled ==
    /\ cpc = "idle"
    /\ IF Truthy(sessionId)
       THEN /\ cpc' = "closing"
            /\ UNCHANGED isActive
       ELSE /\ cpc' = "done"
            /\ isActive' = FALSE
    /\ UNCHANGED <<pc, sessionId, isFirstTime, isConnecting, outputArray, response,
                   sessionFile, emitted, emitCount, noticeSent, connPending>>
    /\ UNCHANGED reconnect
    /\ UNCHANGED mvars

\* Close resolves: the notice is stored on channel 6 and emitted, and the
\* active flag is cleared
CloseResolves ==
    /\ cpc = "closing"
    /\ outputArray' = Push(Empty8, 6, ShutdownMsg(sessionId))
    /\ Emit(outputArray')
    /\ noticeSent' = TRUE
    /\ isActive' = FALSE
    /\ cpc' = "done"
    /\ UNCHANGED <<pc, sessionId, isFirstTime, isConnecting, response,
                   sessionFile, connPending>>
    /\ UNCHANGED reconnect
    /\ UNCHANGED mvars

\* Close rejects: the rejection leaves cleanup before isActive = false
CloseRejects ==
    /\ cpc = "closing"
    /\ cpc' = "failed"
    /\ UNCHANGED <<pc, sessionId, isActive, isFirstTime, isConnecting, outputArray, response,
                   sessionFile, emitted, emitCount, noticeSent, connPending>>
    /\ UNCHANGED reconnect
    /\ UNCHANGED mvars

(***************************************************************************)
(* The trigger                                                             *)
(***************************************************************************)
Poller ==
    \/ OpenAnswered
    \/ OpenUnanswered
    \/ WaitForServerRetry
    \/ WriteSettles
    \/ LoginResolves
    \/ LoginRejects
    \/ StartNotificationsResolves
    \/ StartNotificationsRejects
    \/ AddFilterResolves
    \/ AddFilterRejects
    \/ GetNotificationsResolves
    \/ GetNotificationsRejects
    \/ PollingIntervalOver

Cleanup ==
    \/ CleanupCalled
    \/ CloseResolves
    \/ CloseRejects

Next == Poller \/ Cleanup

Spec == Init /\ [][Next]_vars

\* The event loop runs every continuation of the poller task whose request has
\* settled or whose timer has expired, and the peer, asked again and again,
\* eventually answers Open.
LiveSpec == Init /\ [][Next]_vars /\ WF_vars(Poller) /\ SF_vars(OpenAnswered)

(***************************************************************************)
(* The MCP server: tool handlers.  One handler runs at a time; mpc names   *)
(* the await it is suspended at.  The trigger is another process, seen     *)
(* here only through session/sessionId.json.                               *)
(***************************************************************************)
\* the variables of the trigger process that the MCP server cannot touch
triggerVars ==
    <<pc, cpc, sessionId, isActive, isFirstTime, isConnecting, outputArray,
      response, emitted, emitCount, noticeSent, connPending, reconnect>>

\* the MCP server starts beside a trigger process that has left the session
\* file in any of its states
McpInit ==
    /\ pc = "wfs_open"
    /\ cpc = "idle"
    /\ sessionId = Undef
    /\ isActive = TRUE
    /\ isFirstTime = TRUE
    /\ isConnecting = TRUE
    /\ outputArray = Empty7
    /\ response = NoResponse
    /\ sessionFile \in FileStates
    /\ emitted = <<>>
    /\ emitCount = 0
    /\ noticeSent = FALSE
    /\ connPending = FALSE
    /\ reconnect = "none"
    /\ McpStart

\* connectToServer of the trigger process writes the session file
TriggerWrites ==
    /\ \E s \in SessionIds : sessionFile' = SessionRecord(s, ip)
    /\ loaded' = NoLoad
    /\ UNCHANGED <<mpc, tool, toolResult, mSession, result, sessionFileMcp,
                   keepAliveInterval, unhandled, sent, timerVars, outcome>>
    /\ UNCHANGED triggerVars

\* setInterval and setTimeout of keepAlive: both handles are overwritten, and
\* the timers they referred to stay armed
Arm(f) ==
    /\ Len(leaked.intervals) < MaxLeaked
    /\ leaked.timeouts < MaxLeaked
    /\ keepAliveInterval' = Timer(f)
    /\ stopKeepAliveTimeout' = TRUE
    /\ leaked' = [intervals |-> IF keepAliveInterval.armed
                                 THEN Append(leaked.intervals, keepAliveInterval)
                                 ELSE leaked.intervals,
                  timeouts  |-> leaked.timeouts + (IF stopKeepAliveTimeout THEN 1 ELSE 0)]

\* the un-awaited keepAlive() call: nothing, a rejection nobody handles, or
\* the two timers armed
KeepAliveCall ==
    /\ unhandled' = (unhandled \/ KeepAliveOutcome(sessionFile) = "rejects")
    /\ IF KeepAliveOutcome(sessionFile) = "arms"
       THEN Arm(sessionFile)
       ELSE UNCHANGED <<keepAliveInterval, stopKeepAliveTimeout, leaked>>

\* a pre-check that consumes the record it reads
PreCheck_Removing ==
    /\ KeepAliveCall
    /\ loaded' = Load(sessionFile)
    /\ sessionFile' = NoFile
    /\ UNCHANGED sessionFileMcp

\* the pre-check of every operation wrapper (getSessionAndHeaders, or the
\* same three calls in the handler): keepAlive(), getSession(), getIp()
PreCheck ==
    /\ KeepAliveCall
    /\ loaded' = Load(sessionFile)
    /\ UNCHANGED <<sessionFile, sessionFileMcp>>

\* an operation wrapper is called: without a session id it returns the
\* no-session result, with one it sends its request
WrapperCalled(t) ==
    /\ mpc = "idle"
    /\ tool' = t
    /\ PreCheck
    /\ result' = Undef
    /\ IF Falsy(loaded'.sessionId)
       THEN /\ toolResult' = NoSessionResult
            /\ mSession' = [sessionId |-> Null, ip |-> NullIp]
            /\ mpc' = "idle"
            /\ UNCHANGED sent
       ELSE /\ toolResult' = NoResult
            /\ mSession' = loaded'
            /\ mpc' = IF t = "logout-session" THEN "lo_logout" ELSE "op_req"
            /\ sent' = Request(EndpointOf(t), loaded'.ip, loaded'.sessionId)
    /\ UNCHANGED <<spc, probe, outcome>>
    /\ UNCHANGED triggerVars

OperationCalled == \E t \in Wrappers : WrapperCalled(t)

\* a wrapper that sends its request again when the gateway gave null
OperationSettles_Retries ==
    /\ mpc = "op_req"
    /\ \E o \in Outcomes(mSession.ip, {OkBody}) :
         /\ outcome' = o
         /\ result' = AppVisionRequest(o)
         /\ IF Falsy(result')
            THEN mpc' = "op_req" /\ UNCHANGED toolResult
            ELSE mpc' = "idle" /\ toolResult' = WrapperResult(tool, result')
    /\ UNCHANGED <<tool, mSession, sessionFile, sessionFileMcp, keepAliveInterval,
                   unhandled, sent, loaded, timerVars>>
    /\ UNCHANGED triggerVars

\* the request of get-current-alarms or set-variable settles and the handler returns
OperationSettles ==
    /\ mpc = "op_req"
    /\ \E o \in Outcomes(mSession.ip, {OkBody}) :
         /\ outcome' = o
         /\ result' = AppVisionRequest(o)
         /\ toolResult' = WrapperResult(tool, result')
    /\ mpc' = "idle"
    /\ UNCHANGED <<tool, mSession, sessionFile, sessionFileMcp, keepAliveInterval,
                   unhandled, sent, loaded, timerVars>>
    /\ UNCHANGED triggerVars

\* the Logout request of logout-session settles and Close is sent
LogoutSettles ==
    /\ mpc = "lo_logout"
    /\ \E o \in Outcomes(mSession.ip, {OkBody}) :
         /\ outcome' = o
         /\ result' = AppVisionRequest(o)
    /\ sent' = Request("Close", mSession.ip, mSession.sessionId)
    /\ mpc' = "lo_close"
    /\ UNCHANGED <<tool, toolResult, mSession, sessionFile, sessionFileMcp,
                   keepAliveInterval, unhandled, loaded, timerVars>>
    /\ UNCHANGED triggerVars

\* the Close request of logout-session settles and the handler returns
LogoutCloseSettles ==
    /\ mpc = "lo_close"
    /\ \E o \in Outcomes(mSession.ip, {OkBody}) :
         /\ outcome' = o
         /\ result' = AppVisionRequest(o)
         /\ toolResult' = WrapperResult(tool, result')
    /\ mpc' = "idle"
    /\ UNCHANGED <<tool, mSession, sessionFile, sessionFileMcp, keepAliveInterval,
                   unhandled, sent, loaded, timerVars>>
    /\ UNCHANGED triggerVars

\* login-session is called: ip = getIp() and the Open request is sent
LoginSessionCalled ==
    /\ mpc = "idle"
    /\ tool' = "login-session"
    /\ toolResult' = NoResult
    /\ mSession' = [sessionId |-> Null, ip |-> GetIp(sessionFile)]
    /\ result' = Undef
    /\ sent' = Request("Open", GetIp(sessionFile), Null)
    /\ mpc' = "li_open"
    /\ UNCHANGED <<sessionFile, sessionFileMcp, keepAliveInterval, unhandled, loaded,
                   timerVars, outcome>>
    /\ UNCHANGED triggerVars

\* the handler of login-session returns r from its first try block
LoginSessionFails(r) ==
    /\ toolResult' = r
    /\ mpc' = "idle"
    /\ UNCHANGED <<mSession, sessionFileMcp, keepAliveInterval, unhandled, sent,
                   stopKeepAliveTimeout, leaked>>

\* saveSessionToFile(id): written, or failed and logged
SaveSessionToFile(id) ==
    \E written \in BOOLEAN :
        sessionFileMcp' = IF written THEN McpRecord(id) ELSE sessionFileMcp

\* the fetch of Open settles: fetch throws, the body has no <string> element
\* with text, the text is blank, or the text is the session id, which is
\* saved before keepAlive() is called and Login is sent
LoginOpenSettles ==
    /\ mpc = "li_open"
    /\ \E o \in Outcomes(mSession.ip, McpOpenBodies) :
         /\ outcome' = o
         /\ IF o.kind = "unreachable" \/ StripTags(o.body) = <<>>
            THEN LoginSessionFails(Text("Error retrieving sessionId: ", <<>>))
            ELSE IF Falsy(Trim(StripTags(o.body)))
            THEN LoginSessionFails(Text("Failed to retrieve sessionId from AppVision.", <<>>))
            ELSE /\ mSession' = [mSession EXCEPT !.sessionId = Trim(StripTags(o.body))]
                 /\ SaveSessionToFile(mSession'.sessionId)
                 /\ KeepAliveCall
                 /\ sent' = Request("Login", mSession.ip, mSession'.sessionId)
                 /\ mpc' = "li_login"
                 /\ UNCHANGED toolResult
    /\ UNCHANGED <<tool, result, sessionFile, loaded, spc, probe>>
    /\ UNCHANGED triggerVars

\* the Login request settles: its value is kept and StartNotifications is sent
LoginLoginSettles ==
    /\ mpc = "li_login"
    /\ \E o \in Outcomes(mSession.ip, LoginBodies) :
         /\ outcome' = o
         /\ result' = AppVisionRequest(o)
    /\ sent' = Request("StartNotifications", mSession.ip, mSession.sessionId)
    /\ mpc' = "li_start"
    /\ UNCHANGED <<tool, toolResult, mSession, sessionFile, sessionFileMcp,
                   keepAliveInterval, unhandled, loaded, timerVars>>
    /\ UNCHANGED triggerVars

\* StartNotifications settles (its value is dropped) and AddFilterNotifications is sent
LoginStartSettles ==
    /\ mpc = "li_start"
    /\ sent' = Request("AddFilterNotifications", mSession.ip, mSession.sessionId)
    /\ mpc' = "li_filter"
    /\ UNCHANGED <<tool, toolResult, mSession, result, sessionFile, sessionFileMcp,
                   keepAliveInterval, unhandled, loaded, timerVars, outcome>>
    /\ UNCHANGED triggerVars

\* AddFilterNotifications settles (its value is dropped) and the handler
\* returns what the value of Login classifies as
LoginFilterSettles ==
    /\ mpc = "li_filter"
    /\ toolResult' = LoginResult(result)
    /\ mpc' = "idle"
    /\ UNCHANGED <<tool, mSession, result, sessionFile, sessionFileMcp,
                   keepAliveInterval, unhandled, sent, loaded, timerVars, outcome>>
    /\ UNCHANGED triggerVars

McpNext ==
    \/ TriggerWrites
    \/ OperationCalled
    \/ OperationSettles
    \/ LogoutSettles
    \/ LogoutCloseSettles
    \/ LoginSessionCalled
    \/ LoginOpenSettles
    \/ LoginLoginSettles
    \/ LoginStartSettles
    \/ LoginFilterSettles

McpSpec == McpInit /\ [][McpNext]_vars

(***************************************************************************)
(* The timers of the MCP server.  keepAlive arms them only when the top    *)
(* level of session/sessionId.json has a sessionId, the format of          *)
(* saveSessionToFile, which connectToServer of the trigger never writes:   *)
(* KeepAliveSpec is McpSpec started on such a record as well.              *)
(***************************************************************************)
\* the MCP server starts on any state of the session file, a record with a
\* top-level sessionId included
KeepAliveInit ==
    /\ pc = "wfs_open"
    /\ cpc = "idle"
    /\ sessionId = Undef
    /\ isActive = TRUE
    /\ isFirstTime = TRUE
    /\ isConnecting = TRUE
    /\ outputArray = Empty7
    /\ response = NoResponse
    /\ sessionFile \in FileStates \cup { McpRecord(s) : s \in SessionIds }
    /\ emitted = <<>>
    /\ emitCount = 0
    /\ noticeSent = FALSE
    /\ connPending = FALSE
    /\ reconnect = "none"
    /\ McpStart

\* the intervals still armed: the one keepAliveInterval refers to and the
\* ones whose handle was overwritten
LiveIntervals ==
    { leaked.intervals[i] : i \in DOMAIN leaked.intervals }
    \cup (IF keepAliveInterval.armed THEN {keepAliveInterval} ELSE {})

\* an interval callback whose failed KeepAlive stops the keep-alive
KeepAliveTick_Fatal ==
    /\ \E t \in LiveIntervals :
         \E o \in Outcomes(t.ip, {OkBody}) :
            /\ probe' = [sent |-> TRUE, sessionId |-> t.sessionId, ip |-> t.ip,
                         outcome |-> o.kind]
            /\ IF o.kind = "ok"
               THEN UNCHANGED <<keepAliveInterval, stopKeepAliveTimeout, leaked>>
               ELSE /\ keepAliveInterval' = NoTimer
                    /\ stopKeepAliveTimeout' = FALSE
                    /\ leaked' = [intervals |-> <<>>, timeouts |-> 0]
    /\ UNCHANGED <<mpc, tool, toolResult, mSession, result, sessionFile, sessionFileMcp,
                   unhandled, sent, loaded, outcome, spc>>
    /\ UNCHANGED triggerVars

\* the callback of a setInterval runs: KeepAlive is sent to the address and
\* with the session id of its keepAlive call; a failure is caught and logged
KeepAliveTick ==
    /\ \E t \in LiveIntervals :
         \E o \in Outcomes(t.ip, {OkBody}) :
            probe' = [sent |-> TRUE, sessionId |-> t.sessionId, ip |-> t.ip,
                      outcome |-> o.kind]
    /\ UNCHANGED <<mpc, tool, toolResult, mSession, result, sessionFile, sessionFileMcp,
                   keepAliveInterval, unhandled, sent, loaded, outcome,
                   stopKeepAliveTimeout, leaked, spc>>
    /\ UNCHANGED triggerVars

\* the timers stopKeepAlive stops when a timeout has fired (the oldest one
\* pending): the two the handles refer to
StopTimers ==
    /\ keepAliveInterval' = NoTimer
    /\ stopKeepAliveTimeout' = FALSE
    /\ leaked' = [leaked EXCEPT !.timeouts = IF @ > 0 THEN @ - 1 ELSE 0]

\* a setTimeout of keepAlive fires and stopKeepAlive runs to its await: the
\* timers of the handles are cleared, and Logout is sent when getSession()
\* and getIp() both return a value
IdleTimeout ==
    /\ spc = StopIdle
    /\ leaked.timeouts > 0 \/ stopKeepAliveTimeout
    /\ StopTimers
    /\ spc' = IF ~Falsy(GetSession(sessionFile)) /\ GetIp(sessionFile) # NullIp
              THEN [at |-> "logout", sessionId |-> GetSession(sessionFile),
                    ip |-> GetIp(sessionFile)]
              ELSE StopIdle
    /\ UNCHANGED <<mpc, tool, toolResult, mSession, result, sessionFile, sessionFileMcp,
                   unhandled, sent, loaded, outcome, probe>>
    /\ UNCHANGED triggerVars

\* removeSession: unlinkSync(SESSION_FILE), a failure is caught and logged
RemoveSession == sessionFile' = NoFile

\* the Logout of stopKeepAlive settles, a failure is caught and logged, and
\* removeSession() runs
StopKeepAliveSettles ==
    /\ spc.at = "logout"
    /\ RemoveSession
    /\ loaded' = NoLoad
    /\ spc' = StopIdle
    /\ UNCHANGED <<mpc, tool, toolResult, mSession, result, sessionFileMcp,
                   keepAliveInterval, unhandled, sent, outcome, stopKeepAliveTimeout,
                   leaked, probe>>
    /\ UNCHANGED triggerVars

KeepAliveNext ==
    \/ McpNext
    \/ KeepAliveTick
    \/ IdleTimeout
    \/ StopKeepAliveSettles

KeepAliveSpec == KeepAliveInit /\ [][KeepAliveNext]_vars

(***************************************************************************)
(* The two reads of the pre-check.  getSession() and getIp() each read     *)
(* session/sessionId.json with readFileSync; the trigger is another        *)
(* process and writes the file with fs.writeFile, which truncates it when  *)
(* it opens it.  ReadsSpec takes the two reads one at a time beside that   *)
(* writer; mpc = "pre_ip" is the wrapper between them.                     *)
(***************************************************************************)
\* fs.writeFile of connectToServer has opened the file and written nothing yet
TriggerTruncates ==
    /\ sessionFile # EmptyFile
    /\ sessionFile' = EmptyFile
    /\ loaded' = NoLoad
    /\ UNCHANGED <<mpc, tool, toolResult, mSession, result, sessionFileMcp,
                   keepAliveInterval, unhandled, sent, timerVars, outcome>>
    /\ UNCHANGED triggerVars

\* a wrapper is called: keepAlive() and const sessionId = getSession()
GetSessionRead(t) ==
    /\ mpc = "idle"
    /\ tool' = t
    /\ KeepAliveCall
    /\ mSession' = [sessionId |-> GetSession(sessionFile), ip |-> "<unread>"]
    /\ toolResult' = NoResult
    /\ result' = Undef
    /\ loaded' = NoLoad
    /\ mpc' = "pre_ip"
    /\ UNCHANGED <<sessionFile, sessionFileMcp, sent, spc, probe, outcome>>
    /\ UNCHANGED triggerVars

\* const ip = getIp(), then if (!sessionId): the no-session result, or the
\* request of the wrapper with the id of the first read and the address of
\* the second
GetIpRead ==
    /\ mpc = "pre_ip"
    /\ loaded' = [sessionId |-> mSession.sessionId, ip |-> GetIp(sessionFile)]
    /\ IF Falsy(mSession.sessionId)
       THEN /\ toolResult' = NoSessionResult
            /\ mSession' = [sessionId |-> Null, ip |-> NullIp]
            /\ mpc' = "idle"
            /\ UNCHANGED sent
       ELSE /\ mSession' = loaded'
            /\ mpc' = IF tool = "logout-session" THEN "lo_logout" ELSE "op_req"
            /\ sent' = Request(EndpointOf(tool), loaded'.ip, loaded'.sessionId)
            /\ UNCHANGED toolResult
    /\ UNCHANGED <<tool, result, sessionFile, sessionFileMcp, keepAliveInterval,
                   unhandled, timerVars, outcome>>
    /\ UNCHANGED triggerVars

ReadsNext ==
    \/ TriggerTruncates
    \/ TriggerWrites
    \/ \E t \in Wrappers : GetSessionRead(t)
    \/ GetIpRead
    \/ OperationSettles
    \/ LogoutSettles
    \/ LogoutCloseSettles

ReadsSpec == McpInit /\ [][ReadsNext]_vars

(***************************************************************************)
(* Properties                                                              *)
(***************************************************************************)
\* the poller task is inside connectToServer (waitForServer included)
InConnect == pc \in {"wfs_open", "wfs_sleep", "cts_write", "cts_login"}

\* the poller task is inside enableNotifications
InEnable == pc \in {"en_start", "en_filter"}

\* this step is one this.emit call
OneEmit == emitCount' = (emitCount + 1) % EmitWrap

\* this step is the settling of a GetNotifications request
FetchFails == pc = "mon_fetch" /\ response'.req = "GetNotifications" /\ ~response'.ok
FetchSucceeds == pc = "mon_fetch" /\ response'.req = "GetNotifications" /\ response'.ok

\* this step sends a GetNotifications request
FetchSent == pc # "mon_fetch" /\ pc' = "mon_fetch"

\* the fan-out whose channel 6 holds the one message m and whose other channels are empty
StatusOnly(m) == [i \in 1..8 |-> IF i = 7 THEN <<[json |-> [message |-> m]]>> ELSE <<>>]

\* C1: a GetNotifications request that fails emits exactly one fan-out, with
\* "Deconnection detected" alone on channel 6 and every other channel empty, and
\* enters connectToServer in the same step; connectToServer is left only into
\* enableNotifications (or by a rejection), the poller emits nothing while it
\* reconnects, and the next GetNotifications is sent only once
\* enableNotifications has completed.
C1_DisconnectFanOut ==
    [][ /\ FetchFails =>
            /\ OneEmit
            /\ emitted' = StatusOnly("Deconnection detected")
            /\ InConnect'
        /\ (InConnect /\ ~InConnect') => (pc' \in {"en_start", "rejected"})
        /\ (InEnable /\ ~InEnable') => (pc' \in {"mon_fetch", "done", "rejected"})
        /\ ((InConnect \/ InEnable) /\ emitCount' # emitCount) => (cpc = "closing")
        /\ FetchSent => (pc \in {"en_filter", "mon_sleep"})
      ]_vars

\* C1: a fetch has failed during polling, its fan-out is the last one emitted
\* and the Open probe of the reconnect is in flight
C1_Witness ==
    /\ pc = "wfs_open"
    /\ response = Rejected("GetNotifications")
    /\ emitted = StatusOnly("Deconnection detected")
    /\ emitCount = 1

\* the body holds a notification of a known type
C3_HasKnown(body) ==
    /\ body.kind = "array"
    /\ \E i \in DOMAIN body.items :
         TypeOf(body.items[i]) \in
           {"EventRow", "VariableState", "AlarmInfo", "GroupState", "AreaState",
            "ProtocolState", "ServerState"}

\* C3: a poll cycle whose fetch succeeded emits exactly one fan-out when the
\* batch holds a notification of a known type, and emits nothing otherwise
\* (empty, blank, unparsable, without notifications, only unknown types).
C3_EmitIffKnown ==
    [][ FetchSucceeds =>
          IF C3_HasKnown(response'.body)
          THEN OneEmit /\ emitted' = FanOut(outputArray')
          ELSE UNCHANGED <<emitted, emitCount>>
      ]_vars

\* C3: a batch of two unknown-typed notifications was fetched and nothing has
\* been emitted
C3_Witness ==
    /\ pc = "mon_sleep"
    /\ response.body.kind = "array"
    /\ Len(response.body.items) = 2
    /\ ~C3_HasKnown(response.body)
    /\ emitCount = 0
    /\ emitted = <<>>

\* the type whose notifications channel c carries (none on channel 6)
C4_TypeOfChannel ==
    <<"EventRow", "VariableState", "AlarmInfo", "GroupState", "AreaState",
      "ProtocolState", "<none>", "ServerState">>

\* the notifications of the batch that belong on channel c, in batch order, as emitted
C4_Expected(items, c) ==
    LET sel == SelectSeq(items, LAMBDA n : TypeOf(n) = C4_TypeOfChannel[c + 1])
    IN  [j \in DOMAIN sel |-> [json |-> FormattedNotification(sel[j])]]

\* C4: in the fan-out emitted for a batch, every channel other than 6 holds
\* exactly the batch's notifications of the channel's type, once each and in
\* batch order (so unknown-typed ones are in no channel), and channel 6 holds
\* no peer notification.
C4_ChannelOfType ==
    [][ (FetchSucceeds /\ emitCount' # emitCount) =>
          /\ Len(emitted') = 8
          /\ \A c \in (0..7) \ {6} :
               emitted'[c + 1] = C4_Expected(response'.body.items, c)
          /\ \A j \in DOMAIN emitted'[7] : "notification" \notin DOMAIN emitted'[7][j].json
      ]_vars

\* C4: the last fan-out is the one of a batch holding an unknown-typed
\* notification followed by a ServerState one, which it carries on channel 7
C4_Witness ==
    /\ pc = "mon_sleep"
    /\ response.body.kind = "array"
    /\ Len(response.body.items) = 2
    /\ TypeOf(response.body.items[1]) = "Foo"
    /\ TypeOf(response.body.items[2]) = "ServerState"
    /\ emitted = FanOut(outputArray)
    /\ Len(emitted[8]) = 1

\* C2: a Login, StartNotifications or AddFilterNotifications request that
\* fails in the poller is retried from the Open probe: the poller task goes
\* back into waitForServer and does not end.
C2_RetriedFromOpen ==
    [][ (pc \in {"cts_login", "en_start", "en_filter"} /\ ~response'.ok)
          => (pc' \in {"wfs_open", "wfs_sleep"})
      ]_vars

\* C5: the fan-out of the first batch with a known type after a connect
\* carries "Connection successful" alone on channel 6, and on its other
\* channels only the notifications of that batch.
C5_FirstFanOutCarriesConnect ==
    [][ (FetchSucceeds /\ emitCount' # emitCount /\ isFirstTime) =>
          /\ emitted'[7] = <<[json |-> [message |-> "Connection successful"]]>>
          /\ \A c \in (0..7) \ {6} :
               emitted'[c + 1] = C4_Expected(response'.body.items, c)
      ]_vars

\* C6: once cleanup has run, whether Close resolved or rejected, the active
\* flag is cleared.
C6_CleanupDeactivates == (cpc \in {"done", "failed"}) => ~isActive

\* C7: after cleanup has emitted its disconnect notice no further fan-out is
\* emitted.
C7_NoticeIsFinal == [][ noticeSent => UNCHANGED <<emitted, emitCount>> ]_vars

\* C9: when Login, StartNotifications or AddFilterNotifications has failed, the
\* session file does not name the session id of that attempt.
C9_NoRecordOnFailure ==
    (pc = "rejected") => (sessionId \notin FileSessionIds(sessionFile))

\* C10: a "Deconnection detected" fan-out is emitted only when every earlier
\* successful Login has had its "Connection successful" carried by a fan-out.
C10_ConnectEmittedBeforeDisconnect ==
    [][ (FetchFails /\ emitCount' # emitCount) => ~connPending ]_vars

\* this step is one of the poller task (every step of cleanup changes cpc)
PollerStep == cpc' = cpc

\* the poller task is probing the peer in waitForServer
Probing == pc \in {"wfs_open", "wfs_sleep"}

C27_ConnectDeliveredOnce ==
    [][ (FetchSucceeds /\ emitCount' # emitCount) =>
          /\ ([message |-> "Connection successful"] \in
                 { emitted'[7][j].json : j \in DOMAIN emitted'[7] })
                => (connPending /\ ~connPending')
          /\ ~isFirstTime => (emitted'[7] = <<>>)
      ]_vars

\* C27: a second batch with a known type was emitted after a connect, with
\* channel 6 empty
C27_Witness ==
    /\ pc = "mon_sleep"
    /\ response.ok
    /\ C3_HasKnown(response.body)
    /\ emitted = FanOut(outputArray)
    /\ Len(emitted) = 8
    /\ emitted[7] = <<>>
    /\ ~connPending
    /\ ~noticeSent

\* C28: a poll cycle whose GetNotifications request resolved goes on to the
\* pollingInterval wait whatever the body: it does not enter connectToServer,
\* touches neither the session id nor the in-progress flag, emits no fan-out
\* carrying "Deconnection detected", and emits nothing at all when the body
\* holds no notification of a known type.
C28_BodyNeverEscalates ==
    [][ FetchSucceeds =>
          /\ pc' = "mon_sleep"
          /\ UNCHANGED <<sessionId, isConnecting, sessionFile>>
          /\ (emitCount' # emitCount) =>
                \A j \in DOMAIN emitted'[7] :
                    emitted'[7][j].json.message # "Deconnection detected"
          /\ ~C3_HasKnown(response'.body) => UNCHANGED <<emitted, emitCount, outputArray>>
      ]_vars

\* C28: a body the parser rejects was fetched during polling after an earlier
\* batch had been emitted; the poller is in its pollingInterval wait
C28_Witness ==
    /\ pc = "mon_sleep"
    /\ response.ok
    /\ response.body.kind = "malformed"
    /\ ~isFirstTime
    /\ emitCount = 1

\* C29: the in-progress flag is set exactly while an Open request is in
\* flight: Open is sent only from a state where the flag is false and sets it,
\* every end of the request (a session id, an empty body, a rejection) clears
\* it, so the busy-wait branch is never taken, and a probe that waits is
\* followed by another Open or by the return of waitForServer.
C29_OneProbeInFlight ==
    /\ []((pc = "wfs_open") <=> isConnecting)
    /\ [][ /\ (pc # "wfs_open" /\ pc' = "wfs_open") => (~isConnecting /\ isConnecting')
           /\ (pc = "wfs_open" /\ pc' # "wfs_open") =>
                 (~isConnecting' /\ pc' \in {"cts_write", "wfs_sleep"})
           /\ (pc = "wfs_sleep" /\ pc' # "wfs_sleep") => (pc' \in {"wfs_open", "cts_write"})
         ]_vars
    /\ (pc = "wfs_sleep") ~> (pc \in {"wfs_open", "cts_write"})

\* C29: an Open request has rejected: the flag is clear during the 2 s wait
C29_Witness ==
    /\ pc = "wfs_sleep"
    /\ response = Rejected("Open")
    /\ ~isConnecting

\* C30: GetNotifications is sent only from the end of enableNotifications or
\* from the end of the pollingInterval wait of the previous cycle; a request in
\* flight ends in that wait (after the dispatch of its batch) when it resolved
\* and in connectToServer when it rejected, never in another GetNotifications.
C30_CyclesSequential ==
    [][ /\ (pc' = "mon_fetch" /\ pc # "mon_fetch") => (pc \in {"en_filter", "mon_sleep"})
        /\ (pc = "mon_fetch" /\ response' # response) =>
              /\ pc' # "mon_fetch"
              /\ response'.req = "GetNotifications"
              /\ response'.ok => (pc' = "mon_sleep")
              /\ ~response'.ok => (pc' \in {"wfs_open", "cts_write"})
        /\ (pc = "mon_fetch" /\ response' = response) => (pc' = "mon_fetch")
      ]_vars

\* C30: after a disconnect fan-out the whole reconnect sequence has run and the
\* next GetNotifications is in flight
C30_Witness ==
    /\ pc = "mon_fetch"
    /\ emitted = StatusOnly("Deconnection detected")
    /\ isFirstTime
    /\ outputArray = Push(Empty8, 6, [message |-> "Connection successful"])

(***************************************************************************)
(* Properties of the MCP server                                            *)
(***************************************************************************)
\* this step is the pre-check of an operation wrapper being called
WrapperInvoked ==
    /\ mpc = "idle"
    /\ tool' \in {"get-current-alarms", "set-variable", "logout-session"}
    /\ loaded'.ip # "<unread>"

\* this step is the handler of login-session returning after its three requests
LoginReturns == mpc = "li_filter" /\ mpc' = "idle"

\* the text login-session must return for the Login response body r
C11_Expected(r) ==
    IF Includes(r, <<"4", "0", "1">>)
    THEN "Unauthorized: Incorrect username or password."
    ELSE IF Includes(r, <<"4", "0", "2">>)
    THEN "Too many clients or users connected. Please try again later."
    ELSE IF Includes(r, <<"4", "0", "6">>)
    THEN "New user detected. Please change the password."
    ELSE IF Includes(r, <<"5", "0", "0">>)
    THEN "Internal server error. Please contact support."
    ELSE "Session created successfully: "

\* C11: when the Login request of login-session gave a response body, the
\* handler returns unauthorized if the body contains "401", otherwise
\* too-many-clients if it contains "402", otherwise password-change-required if
\* it contains "406", otherwise internal-server-error if it contains "500",
\* and otherwise the success text followed by the body.
C11_SentinelPriority ==
    [][ (LoginReturns /\ result \notin {<<"null">>, <<"undefined">>}) =>
          /\ toolResult'.text = C11_Expected(result)
          /\ toolResult'.arg =
               IF toolResult'.text = "Session created successfully: " THEN result ELSE <<>>
      ]_vars

\* C11: login-session has returned unauthorized for a body that holds "402"
\* before "401"
C11_Witness ==
    /\ tool = "login-session"
    /\ mpc = "idle"
    /\ result = <<"4", "0", "2", "4", "0", "1">>
    /\ toolResult.text = "Unauthorized: Incorrect username or password."

\* C12: when the Login request of login-session failed (the gateway returned
\* null), the handler does not return the "Session created successfully" result.
C12_LoginFailureIsError ==
    (tool = "login-session" /\ mpc = "idle" /\ result = <<"null">>)
        => (toolResult.text # "Session created successfully: ")

\* C13: when login-session returns success, getSession and getIp read from the
\* session record the session id its Open call obtained and the address it
\* logged in to.
C13_LoginPersistsSession ==
    [][ (LoginReturns /\ toolResult'.text = "Session created successfully: ") =>
          /\ GetSession(sessionFile') = mSession.sessionId
          /\ GetIp(sessionFile') = mSession.ip
      ]_vars

\* C14: right after a save, by saveSessionToFile of login-session or by
\* connectToServer of the trigger, getSession and getIp return the session id
\* and the address that were saved.
C14_SaveLoadRoundTrip ==
    [][ /\ (mpc = "li_open" /\ mpc' = "li_login"
              /\ sessionFileMcp' = McpRecord(mSession'.sessionId)) =>
                 /\ GetSession(sessionFile') = mSession'.sessionId
                 /\ GetIp(sessionFile') = mSession'.ip
        /\ (sessionFile' # sessionFile) =>
              \E s \in SessionIds :
                 /\ sessionFile' = SessionRecord(s, ip)
                 /\ GetSession(sessionFile') = s
                 /\ GetIp(sessionFile') = ip
      ]_vars

\* the record is missing, empty or not JSON
C15_Unreadable(f) ==
    \/ ~f.exists
    \/ f = [exists |-> TRUE, content |-> <<>>, text |-> "empty"]
    \/ f = [exists |-> TRUE, content |-> <<>>, text |-> "malformed"]

\* C15: getSession and getIp never let an exception out: the pre-check of a
\* wrapper and the getIp of login-session read null from a record that is
\* missing, empty or malformed, and getSession reads null from a record
\* without a sessionId field.
C15_LoadNeverFails ==
    [][ /\ WrapperInvoked =>
              /\ loaded'.sessionId # <<"throw">>
              /\ loaded'.ip # "<throw>"
              /\ C15_Unreadable(sessionFile) =>
                    loaded' = [sessionId |-> <<"null">>, ip |-> "<null>"]
              /\ (~C15_Unreadable(sessionFile)
                    /\ "sessionId" \notin DOMAIN sessionFile.content[1]) =>
                    loaded'.sessionId = <<"null">>
        /\ (mpc = "idle" /\ mpc' = "li_open") =>
              /\ mSession'.ip # "<throw>"
              /\ C15_Unreadable(sessionFile) => mSession'.ip = "<null>"
      ]_vars

\* C15: a wrapper was called on a session file that is not JSON and read null
\* for the session id and for the address
C15_Witness ==
    /\ sessionFile = MalformedFile
    /\ loaded = [sessionId |-> <<"null">>, ip |-> "<null>"]
    /\ toolResult = NoSessionResult

\* C16: a pre-check leaves both session files as they are, and when no write
\* happened since the previous pre-check it reads what that one read; the
\* getIp of login-session likewise reads the address the previous pre-check read.
C16_LoadIdempotent ==
    [][ /\ WrapperInvoked =>
              /\ sessionFile' = sessionFile
              /\ sessionFileMcp' = sessionFileMcp
              /\ (loaded.ip # "<unread>") => (loaded' = loaded)
        /\ (mpc = "idle" /\ mpc' = "li_open") =>
              /\ sessionFile' = sessionFile
              /\ sessionFileMcp' = sessionFileMcp
              /\ (loaded.ip # "<unread>") => (mSession'.ip = loaded.ip)
      ]_vars

\* C16: a pre-check read session id "a", no write followed, and login-session
\* has then read the same address
C16_Witness ==
    /\ tool = "login-session"
    /\ mpc = "li_open"
    /\ loaded.sessionId = <<"a">>
    /\ mSession.ip = loaded.ip
    /\ sessionFile = SessionRecord(<<"a">>, ip)

\* C17: a wrapper whose pre-check reads no session id returns the no-session
\* result at once, sends no request, and leaves no keep-alive timer armed
\* (so no KeepAlive request follows).
C17_NoSessionNoRequest ==
    [][ (WrapperInvoked /\ loaded'.sessionId = <<"null">>) =>
          /\ toolResult' = [text |-> "No active session. Please log in first.", arg |-> <<>>]
          /\ mpc' = "idle"
          /\ sent' = sent
          /\ keepAliveInterval' = [armed |-> FALSE]
      ]_vars

\* C17: get-current-alarms was called without a session file: it has returned
\* the no-session result, nothing was ever sent and no timer is armed
C17_Witness ==
    /\ tool = "get-current-alarms"
    /\ mpc = "idle"
    /\ sessionFile = NoFile
    /\ toolResult = NoSessionResult
    /\ sent = NoRequest
    /\ keepAliveInterval = NoTimer

\* C18: a wrapper whose (last) request failed, the gateway returning null,
\* returns a failure text and not a success message.
C18_FailureIsReported ==
    [][ (mpc \in {"op_req", "lo_close"} /\ mpc' = "idle" /\ result' = <<"null">>) =>
          /\ toolResult'.text \notin {"request sended.", "logout successfully."}
          /\ toolResult'.arg = <<>>
      ]_vars

\* C19: no promise of the MCP server rejects without a handler, the one of
\* the un-awaited keepAlive() included.
C19_NoUnhandledRejection == ~unhandled

\* C20: when logout-session returns, the session record is gone and getSession
\* reads null.
C20_LogoutDestroysRecord ==
    [][ (mpc = "lo_close" /\ mpc' = "idle") =>
          /\ ~sessionFile'.exists
          /\ GetSession(sessionFile') = <<"null">>
      ]_vars

(***************************************************************************)
(* Properties of the keep-alive and of the gateway                         *)
(***************************************************************************)
\* C21: when the record holds a session that getSession returns, the
\* keepAlive() of a wrapper's pre-check arms the periodic probe for that
\* session id and the address of the record.
C21_KeepAliveArmsStoredSession ==
    [][ (WrapperInvoked /\ GetSession(sessionFile) # <<"null">>) =>
          keepAliveInterval' = [armed |-> TRUE, sessionId |-> GetSession(sessionFile),
                                ip |-> GetIp(sessionFile)]
      ]_vars

\* this step is a setTimeout of keepAlive firing, which runs stopKeepAlive
TimeoutFires ==
    \/ leaked'.timeouts < leaked.timeouts
    \/ stopKeepAliveTimeout /\ ~stopKeepAliveTimeout'

C24_ProbeFailureNotFatal ==
    [][ (probe' # probe /\ probe'.outcome # "ok") =>
          /\ UNCHANGED <<keepAliveInterval, stopKeepAliveTimeout, leaked>>
          /\ [armed |-> TRUE, sessionId |-> probe'.sessionId, ip |-> probe'.ip]
                \in LiveIntervals
          /\ UNCHANGED <<sessionFile, sessionFileMcp, spc, unhandled>>
      ]_vars

C24_Witness ==
    /\ probe.sent
    /\ probe.outcome = "unreachable"
    /\ keepAliveInterval = [armed |-> TRUE, sessionId |-> probe.sessionId, ip |-> probe.ip]
    /\ stopKeepAliveTimeout
    /\ sessionFile.exists
    /\ spc = [at |-> "idle"]

\* this step is an AppVisionRequest settling in the handler that awaits it
GatewaySettles ==
    /\ mpc \in {"op_req", "lo_logout", "lo_close", "li_login"}
    /\ mpc' # mpc

\* C25: AppVisionRequest never rejects; its value is the response text for a
\* 2xx response with a body that is not empty, and null for another status, a
\* transport error or an empty body.
C25_GatewayNeverRejects ==
    [][ GatewaySettles =>
          /\ result' # <<"throw">>
          /\ result' = IF outcome'.kind = "ok" /\ outcome'.body # <<>>
                       THEN outcome'.body
                       ELSE <<"null">>
      ]_vars

C25_Witness ==
    /\ mpc = "idle"
    /\ tool = "get-current-alarms"
    /\ outcome = [kind |-> "status", body |-> <<>>]
    /\ result = <<"null">>
    /\ toolResult.text = "Failed to retrieve current alarms."

\* C26: a wrapper leaves both session files as they are, at its pre-check and
\* at every request that settles, and once its request has settled it returns
\* without sending anything more (logout-session: its Logout, then its Close).
C26_NoRetryNoMutation ==
    [][ /\ WrapperInvoked => UNCHANGED <<sessionFile, sessionFileMcp>>
        /\ (mpc \in {"op_req", "lo_logout", "lo_close"} /\ result' # result) =>
              /\ UNCHANGED <<sessionFile, sessionFileMcp>>
              /\ mpc \in {"op_req", "lo_close"} => (mpc' = "idle" /\ sent' = sent)
              /\ mpc = "lo_logout" => (mpc' = "lo_close" /\ sent'.req = "Close")
      ]_vars

C26_Witness ==
    /\ mpc = "idle"
    /\ tool = "set-variable"
    /\ sent = [req |-> "SetVariable", to |-> ip, sid |-> <<"a">>]
    /\ outcome.kind = "unreachable"
    /\ result = <<"null">>
    /\ sessionFile = SessionRecord(<<"a">>, ip)

(***************************************************************************)
(* Properties of the fan-outs and of the connect sequence                  *)
(***************************************************************************)
\* C32: every fan-out emitted (notification batch, disconnect message,
\* shutdown notice) is made of an outputArray of 8 channels and has 8 channels,
\* each as long as the channel it was made of, so empty where that one is
\* empty; the last fan-out emitted never has the 7 channels of the start.
C32_EightChannels ==
    /\ [](emitted # <<>> => (Len(emitted) = 8 /\ Len(emitted) # Len(Empty7)))
    /\ [][ emitCount' # emitCount =>
              /\ Len(outputArray') = 8
              /\ DOMAIN emitted' = 1..8
              /\ \A i \in 1..8 :
                   /\ Len(emitted'[i]) = Len(outputArray'[i])
                   /\ (outputArray'[i] = <<>>) => (emitted'[i] = <<>>)
          ]_vars

\* C32: the first fan-out ever emitted is the one of a batch, with the stored
\* "Connection successful" on channel 6 and a notification on channel 0
C32_Witness ==
    /\ pc = "mon_sleep"
    /\ emitCount = 1
    /\ Len(emitted) = 8
    /\ emitted[7] = <<[json |-> [message |-> "Connection successful"]]>>
    /\ Len(emitted[1]) = 1
    /\ emitted[8] = <<>>
    /\ ~noticeSent

\* C33: whatever the channels held before, a fan-out carries on its channels
\* other than 6 exactly the known-typed notifications of the batch fetched in
\* the same step, once each, and nothing at all when it is not the fan-out of
\* a batch (disconnect message, shutdown notice).
C33_NothingCarriedOver ==
    [][ emitCount' # emitCount =>
          \A c \in (0..7) \ {6} :
             emitted'[c + 1] = IF FetchSucceeds
                               THEN C4_Expected(response'.body.items, c)
                               ELSE <<>>
      ]_vars

\* C33: a second batch in a row with one EventRow notification was emitted,
\* and channel 0 holds that one notification only
C33_Witness ==
    /\ pc = "mon_sleep"
    /\ ~isFirstTime
    /\ response.ok
    /\ response.body.kind = "array"
    /\ Len(response.body.items) = 1
    /\ TypeOf(response.body.items[1]) = "EventRow"
    /\ emitted[7] = <<>>
    /\ Len(emitted[1]) = 1
    /\ emitCount = 0

\* C34: when waitForServer has returned undefined (the active flag was cleared
\* and no Open succeeded), connectToServer writes no session record and sends
\* no Login.
C34_ConnectStopsWhenInactive ==
    [][ (pc = "cts_write" /\ sessionId = <<"undefined">> /\ ~isActive) =>
          /\ sessionFile' = sessionFile
          /\ pc' # "cts_login"
      ]_vars

\* C37: a poll cycle whose fetch succeeded and that emits nothing leaves the
\* first-batch flag, the session id and every channel as they were, a stored
\* "Connection successful" that is still to be delivered included.
C37_SilentCycleChangesNothing ==
    [][ (FetchSucceeds /\ emitCount' = emitCount) =>
          /\ UNCHANGED <<isFirstTime, sessionId, outputArray, connPending>>
          /\ (isFirstTime /\ [message |-> "Connection successful"] \in Range(outputArray[7])) =>
                (isFirstTime' /\ [message |-> "Connection successful"] \in Range(outputArray'[7]))
      ]_vars

\* C37: after the connect a batch of unknown-typed notifications only was
\* fetched; nothing was emitted and "Connection successful" is still stored
C37_Witness ==
    /\ pc = "mon_sleep"
    /\ response.ok
    /\ response.body.kind = "array"
    /\ ~C3_HasKnown(response.body)
    /\ isFirstTime
    /\ connPending
    /\ outputArray = Push(Empty8, 6, [message |-> "Connection successful"])
    /\ emitted = <<>>

\* C36: reconnect is "opened" from the step in which an Open was answered with
\* a body after a disconnection, and "logged" from the step in which the Login
\* that followed resolved; a "Deconnection detected" fan-out is emitted only
\* for a failed GetNotifications of the polling loop, and only when no earlier
\* one was emitted or an answered Open and a resolved Login came after it.
C36_OneDisconnectPerConnection ==
    [][ /\ (reconnect' = "opened" /\ reconnect # "opened") =>
              /\ reconnect = "down"
              /\ pc = "wfs_open"
              /\ response'.req = "Open" /\ response'.ok /\ response'.body # <<>>
        /\ (reconnect' = "logged" /\ reconnect # "logged") =>
              /\ reconnect = "opened"
              /\ pc = "cts_login"
              /\ response'.req = "Login" /\ response'.ok
        /\ (emitCount' # emitCount /\ emitted' = StatusOnly("Deconnection detected")) =>
              /\ FetchFails
              /\ reconnect \in {"none", "logged"}
              /\ reconnect' = "down"
      ]_vars

\* C36: a disconnection was reported for a connection made after an earlier
\* disconnection (no batch was emitted since its Login), and the Open probe of
\* the next reconnect is in flight
C36_Witness ==
    /\ pc = "wfs_open"
    /\ response = Rejected("GetNotifications")
    /\ emitted = StatusOnly("Deconnection detected")
    /\ emitCount = 0
    /\ isFirstTime
    /\ ~noticeSent
    /\ reconnect = "down"

\* C31: login-session sends Login only with the session id of an Open that
\* was answered, and sends StartNotifications only when the peer answered
\* Login with a 2xx status.
C31_LifecycleOrder ==
    [][ /\ (mpc = "li_open" /\ mpc' = "li_login") =>
              /\ outcome'.kind = "ok"
              /\ sent' = [req |-> "Login", to |-> mSession.ip,
                          sid |-> Trim(StripTags(outcome'.body))]
        /\ (mpc = "li_login" /\ mpc' = "li_start") => (outcome'.kind = "ok")
      ]_vars

\* C35: the session id and the address a wrapper has when its pre-check is
\* over are the two values of one content of session/sessionId.json: no
\* file, an unreadable file, or one record as connectToServer writes it.
C35_PairFromOneWrite ==
    [][ (mpc = "pre_ip" /\ mpc' # "pre_ip") =>
          \E f \in FileStates :
             /\ loaded'.sessionId = GetSession(f)
             /\ loaded'.ip = GetIp(f)
      ]_vars

====
